---- MODULE Spec2Model ----
(***************************************************************************)
(* Cursor Usage Monitor (src/src/extension.ts): the refresh orchestrator,  *)
(* the HTTP response classification, the in-band auth detection and the    *)
(* usage extraction, as a state machine plus the pure functions it calls.  *)
(*                                                                         *)
(* JavaScript values are tagged records: [t |-> "undef"], [t |-> "null"],  *)
(* [t |-> "bool", b], [t |-> "num", n], [t |-> "str", s], [t |-> "arr", a] *)
(* and [t |-> "obj", o], where o is the sequence of <<key, value>> pairs   *)
(* in the order JSON.parse created them (the order of the body text).      *)
(***************************************************************************)
EXTENDS Integers, Sequences, FiniteSets, TLC

\* ------------------------------------------------------------------ bounds
MaxCycles == 2   \* refresh cycles started in one run of the model
MaxEdits == 1    \* edits of settings.json by the user in one run of the model

\* ------------------------------------------------------- program constants
DEFAULT_TEAM_ID == "14089613"
DEFAULT_INTERVAL == 15
COOKIE_NAME == "WorkosCursorSessionToken="

\* ------------------------------------------------------------ JS strings
Upper == "ABCDEFGHIJKLMNOPQRSTUVWXYZ"
Lower == "abcdefghijklmnopqrstuvwxyz"
Digits == "0123456789"

CharAt(s, i) == SubSeq(s, i, i)

IsUpperChar(c) == \E i \in 1..26 : CharAt(Upper, i) = c

LowerChar(c) ==
  IF IsUpperChar(c)
  THEN CharAt(Lower, CHOOSE i \in 1..26 : CharAt(Upper, i) = c)
  ELSE c

RECURSIVE ToLowerCase(_)
ToLowerCase(s) ==
  IF Len(s) = 0 THEN ""
  ELSE LowerChar(CharAt(s, 1)) \o ToLowerCase(SubSeq(s, 2, Len(s)))

IsSpace(c) == c = " "

RECURSIVE TrimStart(_)
TrimStart(s) ==
  IF Len(s) > 0 /\ IsSpace(CharAt(s, 1)) THEN TrimStart(SubSeq(s, 2, Len(s))) ELSE s

RECURSIVE TrimEnd(_)
TrimEnd(s) ==
  IF Len(s) > 0 /\ IsSpace(CharAt(s, Len(s))) THEN TrimEnd(SubSeq(s, 1, Len(s) - 1)) ELSE s

Trim(s) == TrimEnd(TrimStart(s))

Includes(s, sub) ==
  \E i \in 1..(Len(s) - Len(sub) + 1) : SubSeq(s, i, i + Len(sub) - 1) = sub

IsDigit(c) == \E i \in 1..10 : CharAt(Digits, i) = c

DigitVal(c) == (CHOOSE i \in 1..10 : CharAt(Digits, i) = c) - 1

AllDigits(s) == Len(s) > 0 /\ \A i \in 1..Len(s) : IsDigit(CharAt(s, i))

RECURSIVE DigitsVal(_)
DigitsVal(s) ==
  IF Len(s) = 0 THEN 0
  ELSE 10 * DigitsVal(SubSeq(s, 1, Len(s) - 1)) + DigitVal(CharAt(s, Len(s)))

\* length of the longest prefix of s made of decimal digits
RECURSIVE DigitPrefixLen(_)
DigitPrefixLen(s) ==
  IF Len(s) > 0 /\ IsDigit(CharAt(s, 1)) THEN 1 + DigitPrefixLen(SubSeq(s, 2, Len(s))) ELSE 0

\* ------------------------------------------------------------- JS values
Undefined == [t |-> "undef"]
Null == [t |-> "null"]
NaN == [t |-> "nan"]
\* Infinity and -Infinity: JSON.parse yields them for literals beyond the
\* double range (1e999), Number for the strings "Infinity" and "-Infinity"
Infinity == [t |-> "inf", neg |-> FALSE]
NegInfinity == [t |-> "inf", neg |-> TRUE]
Bool(b) == [t |-> "bool", b |-> b]
Num(n) == [t |-> "num", n |-> n]
Str(s) == [t |-> "str", s |-> s]
Arr(a) == [t |-> "arr", a |-> a]
Obj(o) == [t |-> "obj", o |-> o]

\* JavaScript truthiness (`!value`, `a || b`, `if (value)`)
Truthy(v) ==
  CASE v.t = "undef" -> FALSE
    [] v.t = "null" -> FALSE
    [] v.t = "nan" -> FALSE
    [] v.t = "bool" -> v.b
    [] v.t = "num" -> v.n # 0
    [] v.t = "str" -> v.s # ""
    [] OTHER -> TRUE

\* typeof value === 'number' (NaN and the infinities included)
TypeofNumber(v) == v.t \in {"num", "inf", "nan"}

\* typeof value === 'object' (null, arrays and objects)
TypeofObject(v) == v.t \in {"null", "arr", "obj"}

\* Number.parseInt(s, 10): leading white space, an optional sign, then the
\* longest run of digits; NaN when there is no digit at that place.
ParseInt(s) ==
  LET body == TrimStart(s)
      neg == Len(body) > 0 /\ CharAt(body, 1) = "-"
      signed == Len(body) > 0 /\ CharAt(body, 1) \in {"-", "+"}
      rest == IF signed THEN SubSeq(body, 2, Len(body)) ELSE body
      k == DigitPrefixLen(rest)
  IN  IF k = 0 THEN NaN
      ELSE Num((IF neg THEN -1 ELSE 1) * DigitsVal(SubSeq(rest, 1, k)))

\* Number(s) for the literals of the model's value pool: white space is
\* trimmed, the empty string is 0, an optionally signed run of digits is that
\* integer, an optionally signed "Infinity" is that infinity, anything else
\* is NaN.
ToNumber(s) ==
  LET body == Trim(s)
      neg == Len(body) > 0 /\ CharAt(body, 1) = "-"
      signed == Len(body) > 0 /\ CharAt(body, 1) \in {"-", "+"}
      rest == IF signed THEN SubSeq(body, 2, Len(body)) ELSE body
  IN  IF body = "" THEN Num(0)
      ELSE IF AllDigits(rest) THEN Num((IF neg THEN -1 ELSE 1) * DigitsVal(rest))
      ELSE IF rest = "Infinity" THEN (IF neg THEN NegInfinity ELSE Infinity)
      ELSE NaN

\* ---------------------------------------------------------- JS objects
\* A canonical array index ("0", "7", "12"): such keys are enumerated first,
\* in ascending numeric order, by Object.entries.
IsIndexKey(k) == AllDigits(k) /\ (Len(k) = 1 \/ CharAt(k, 1) # "0")

HasKey(o, k) == \E i \in 1..Len(o) : o[i][1] = k

\* record[key] on a value produced by JSON.parse (own properties only)
GetProp(v, k) ==
  IF v.t = "obj" /\ HasKey(v.o, k)
  THEN v.o[CHOOSE i \in 1..Len(v.o) : v.o[i][1] = k][2]
  ELSE Undefined

\* the positions of o whose keys are array indices, in ascending key order
RECURSIVE IndexKeyOrder(_, _)
IndexKeyOrder(o, S) ==
  IF S = {} THEN <<>>
  ELSE LET m == CHOOSE i \in S : \A j \in S : DigitsVal(o[i][1]) <= DigitsVal(o[j][1])
       IN  <<m>> \o IndexKeyOrder(o, S \ {m})

\* Object.entries(value): integer-index keys first in ascending order, then
\* the remaining string keys in creation order (ECMAScript OrdinaryOwnPropertyKeys)
ObjectEntries(o) ==
  LET idx == {i \in 1..Len(o) : IsIndexKey(o[i][1])}
      order == IndexKeyOrder(o, idx) \o SelectSeq([i \in 1..Len(o) |-> i], LAMBDA i : i \notin idx)
  IN  [p \in 1..Len(o) |-> o[order[p]]]

\* ------------------------------------------------------ in-band auth check
AUTH_WORDS == {"token", "unauthorized", "forbidden", "auth", "login", "expired"}

AUTH_FIELDS == <<"error", "message", "detail", "errorMessage">>

\* authRegex.test(value) for /(token|unauthorized|forbidden|auth|login|expired)/i
AuthRegexTest(s) == \E w \in AUTH_WORDS : Includes(ToLowerCase(s), w)

\* typeof value === 'string' && authRegex.test(value)
AuthString(v) == v.t = "str" /\ AuthRegexTest(v.s)

\* the errors loop looking at string elements only
AuthEntryStringsOnly(entry) == IF AuthString(entry) THEN entry ELSE Undefined

\* the string an element of the errors array reports, or Undefined
AuthEntry(entry) ==
  IF AuthString(entry) THEN entry
  ELSE IF Truthy(entry) /\ TypeofObject(entry) /\ AuthString(GetProp(entry, "message"))
       THEN GetProp(entry, "message")
       ELSE Undefined

DetectAuthErrorResponse(response) ==
  IF ~Truthy(response) \/ ~TypeofObject(response) THEN Undefined
  ELSE LET hits == {i \in 1..Len(AUTH_FIELDS) : AuthString(GetProp(response, AUTH_FIELDS[i]))}
           errors == GetProp(response, "errors")
           ehits == IF errors.t = "arr"
                    THEN {i \in 1..Len(errors.a) : AuthEntry(errors.a[i]) # Undefined}
                    ELSE {}
       IN  IF hits # {}
           THEN GetProp(response, AUTH_FIELDS[CHOOSE i \in hits : \A j \in hits : i <= j])
           ELSE IF ehits # {}
                THEN AuthEntry(errors.a[CHOOSE i \in ehits : \A j \in ehits : i <= j])
                ELSE Undefined

\* ------------------------------------------------------- usage extraction
USED_CANDIDATES ==
  <<"spendCents", "spend", "usage", "used", "totalSpendCents", "totalSpend",
    "monthlySpendCents", "monthlySpend">>

LIMIT_CANDIDATES ==
  <<"spendLimitCents", "limit", "quota", "max", "usageLimit", "monthlyLimit">>

IsNumeric(value) ==
  IF TypeofNumber(value) THEN TRUE
  ELSE IF value.t = "str" THEN Trim(value.s) # "" /\ ToNumber(value.s) # NaN
  ELSE FALSE

\* path ? `${path}.${key}` : key
NextPath(path, key) == IF path # "" THEN path \o "." \o key ELSE key

\* the scan of one object's entries (lines 493-502): the path of the first
\* entry whose key is a target and whose value is numeric, else the queue
\* extended by the object-valued children met on the way
RECURSIVE ScanEntries(_, _, _, _, _)
ScanEntries(entries, i, path, targetKeys, queue) ==
  IF i > Len(entries) THEN [found |-> FALSE, queue |-> queue]
  ELSE LET key == entries[i][1]
           child == entries[i][2]
           nextPath == NextPath(path, key)
       IN  IF ToLowerCase(key) \in targetKeys /\ IsNumeric(child)
           THEN [found |-> TRUE, path |-> nextPath]
           ELSE ScanEntries(entries, i + 1, path, targetKeys,
                            IF Truthy(child) /\ TypeofObject(child)
                            THEN Append(queue, [value |-> child, path |-> nextPath])
                            ELSE queue)

\* the traversal taking the children of a node before its siblings
RECURSIVE GuessLoopDepthFirst(_, _)
GuessLoopDepthFirst(queue, targetKeys) ==
  IF Len(queue) = 0 THEN Undefined
  ELSE LET value == Head(queue).value
           path == Head(queue).path
           rest == Tail(queue)
       IN  IF ~Truthy(value) \/ ~TypeofObject(value) THEN GuessLoopDepthFirst(rest, targetKeys)
           ELSE IF value.t = "arr"
           THEN GuessLoopDepthFirst([i \in 1..Len(value.a) |->
                                       [value |-> value.a[i],
                                        path |-> NextPath(path, ToString(i - 1))]] \o rest,
                                    targetKeys)
           ELSE LET r == ScanEntries(ObjectEntries(value.o), 1, path, targetKeys, <<>>)
                IN  IF r.found THEN Str(r.path)
                    ELSE GuessLoopDepthFirst(r.queue \o rest, targetKeys)

\* the loop of guessUsagePath over its queue (lines 480-503)
RECURSIVE GuessLoop(_, _)
GuessLoop(queue, targetKeys) ==
  IF Len(queue) = 0 THEN Undefined
  ELSE LET value == Head(queue).value
           path == Head(queue).path
           rest == Tail(queue)
       IN  IF ~Truthy(value) \/ ~TypeofObject(value) THEN GuessLoop(rest, targetKeys)
           ELSE IF value.t = "arr"
           THEN GuessLoop(rest \o [i \in 1..Len(value.a) |->
                                     [value |-> value.a[i],
                                      path |-> NextPath(path, ToString(i - 1))]],
                          targetKeys)
           ELSE LET r == ScanEntries(ObjectEntries(value.o), 1, path, targetKeys, rest)
                IN  IF r.found THEN Str(r.path) ELSE GuessLoop(r.queue, targetKeys)

GuessUsagePath(data, candidates) ==
  GuessLoop(<<[value |-> data, path |-> ""]>>,
            {ToLowerCase(candidates[i]) : i \in 1..Len(candidates)})

\* path.split('.')
RECURSIVE SplitDots(_)
SplitDots(path) ==
  IF ~Includes(path, ".") THEN <<path>>
  ELSE LET d == CHOOSE i \in 1..Len(path) :
                  CharAt(path, i) = "." /\ \A j \in 1..(i - 1) : CharAt(path, j) # "."
       IN  <<SubSeq(path, 1, d - 1)>> \o SplitDots(SubSeq(path, d + 1, Len(path)))

RECURSIVE WalkParts(_, _)
WalkParts(current, parts) ==
  IF Len(parts) = 0 THEN current
  ELSE IF current.t \in {"null", "undef"} THEN Undefined
  ELSE IF current.t = "arr"
       THEN IF ~AllDigits(Head(parts)) THEN Undefined
            ELSE LET n == DigitsVal(Head(parts))
                 IN  WalkParts(IF n < Len(current.a) THEN current.a[n + 1] ELSE Undefined,
                               Tail(parts))
  ELSE IF ~TypeofObject(current) THEN Undefined
  ELSE WalkParts(GetProp(current, Head(parts)), Tail(parts))

GetValueByPath(data, path) ==
  WalkParts(data, SelectSeq(SplitDots(path), LAMBDA part : part # ""))

GetNumberByPath(data, path) ==
  LET value == GetValueByPath(data, path)
  IN  IF TypeofNumber(value) THEN value
      ELSE IF value.t = "str" /\ ToNumber(value.s) # NaN THEN ToNumber(value.s)
      ELSE Undefined

MemberPath(index) == "teamMemberSpend." \o ToString(index) \o ".includedSpendCents"

\* the loop of findTeamMemberUsage from 0-based position index on
RECURSIVE MemberLoop(_, _, _)
MemberLoop(memberSpend, index, targetEmail) ==
  IF index >= Len(memberSpend) THEN [found |-> FALSE]
  ELSE LET item == memberSpend[index + 1]
           email == GetProp(item, "email")
           entryEmail == IF email.t = "str" THEN ToLowerCase(Trim(email.s)) ELSE ""
           includedSpend == GetProp(item, "includedSpendCents")
       IN  IF ~Truthy(item) \/ ~TypeofObject(item)
           THEN MemberLoop(memberSpend, index + 1, targetEmail)
           ELSE IF entryEmail # targetEmail
           THEN MemberLoop(memberSpend, index + 1, targetEmail)
           ELSE IF TypeofNumber(includedSpend)
           THEN [found |-> TRUE, used |-> includedSpend, usedPath |-> MemberPath(index)]
           ELSE IF includedSpend.t = "str" /\ ToNumber(includedSpend.s) # NaN
           THEN [found |-> TRUE, used |-> ToNumber(includedSpend.s),
                 usedPath |-> MemberPath(index)]
           ELSE MemberLoop(memberSpend, index + 1, targetEmail)

FindTeamMemberUsage(response, email) ==
  IF email = "" \/ ~TypeofObject(response) \/ response.t = "null" THEN [found |-> FALSE]
  ELSE LET memberSpend == GetProp(response, "teamMemberSpend")
       IN  IF memberSpend.t # "arr" THEN [found |-> FALSE]
           ELSE MemberLoop(memberSpend.a, 0, ToLowerCase(Trim(email)))

\* a || b on strings, where b may be undefined
OrPath(field, guessed) == IF field # "" THEN Str(field) ELSE guessed

\* extractUsage trying the heuristic search before the team member probe
ExtractUsageGuessFirst(response, config) ==
  IF ~Truthy(response) \/ ~TypeofObject(response)
  THEN [used |-> Undefined, limit |-> Undefined, usedPath |-> Undefined,
        limitPath |-> Undefined, raw |-> response]
  ELSE LET limitPath == OrPath(config.responseLimitField,
                               GuessUsagePath(response, LIMIT_CANDIDATES))
           limit == IF Truthy(limitPath) THEN GetNumberByPath(response, limitPath.s)
                    ELSE Undefined
           memberUsage == FindTeamMemberUsage(response, config.email)
           usedPath == OrPath(config.responseUsedField,
                              GuessUsagePath(response, USED_CANDIDATES))
           used == IF Truthy(usedPath) THEN GetNumberByPath(response, usedPath.s)
                   ELSE Undefined
       IN  IF ~Truthy(usedPath) /\ memberUsage.found
           THEN [used |-> memberUsage.used, limit |-> limit,
                 usedPath |-> Str(memberUsage.usedPath), limitPath |-> limitPath,
                 raw |-> response]
           ELSE [used |-> used, limit |-> limit, usedPath |-> usedPath,
                 limitPath |-> limitPath, raw |-> response]

\* extractUsage (lines 384-433)
ExtractUsage(response, config) ==
  IF ~Truthy(response) \/ ~TypeofObject(response)
  THEN [used |-> Undefined, limit |-> Undefined, usedPath |-> Undefined,
        limitPath |-> Undefined, raw |-> response]
  ELSE LET limitPath == OrPath(config.responseLimitField,
                               GuessUsagePath(response, LIMIT_CANDIDATES))
           limit == IF Truthy(limitPath) THEN GetNumberByPath(response, limitPath.s)
                    ELSE Undefined
           memberUsage == IF config.responseUsedField = ""
                          THEN FindTeamMemberUsage(response, config.email)
                          ELSE [found |-> FALSE]
           usedPath == OrPath(config.responseUsedField,
                              GuessUsagePath(response, USED_CANDIDATES))
           used == IF Truthy(usedPath) THEN GetNumberByPath(response, usedPath.s)
                   ELSE Undefined
       IN  IF memberUsage.found
           THEN [used |-> memberUsage.used, limit |-> limit,
                 usedPath |-> Str(memberUsage.usedPath), limitPath |-> limitPath,
                 raw |-> response]
           ELSE [used |-> used, limit |-> limit, usedPath |-> usedPath,
                 limitPath |-> limitPath, raw |-> response]

\* ----------------------------------------------------------- HTTP fetcher
\* JSON.parse(data) on the body texts the model's server can send; any other
\* text is a syntax error.
BODY_MEMBER == "{\"teamMemberSpend\":[{\"email\":\"a@x.com\",\"includedSpendCents\":1234}]}"
BODY_INBAND == "{\"error\":\"Unauthorized access\"}"
BODY_GUESS == "{\"spendCents\":500,\"spendLimitCents\":2000}"
BODY_EMPTY == "{}"
BODY_HTML == "<html>"

JSONParse(data) ==
  CASE data = BODY_MEMBER ->
         [ok |-> TRUE,
          value |-> Obj(<< <<"teamMemberSpend",
                            Arr(<< Obj(<< <<"email", Str("a@x.com")>>,
                                          <<"includedSpendCents", Num(1234)>> >>) >>)>> >>)]
    [] data = BODY_INBAND ->
         [ok |-> TRUE, value |-> Obj(<< <<"error", Str("Unauthorized access")>> >>)]
    [] data = BODY_GUESS ->
         [ok |-> TRUE,
          value |-> Obj(<< <<"spendCents", Num(500)>>, <<"spendLimitCents", Num(2000)>> >>)]
    [] data = BODY_EMPTY -> [ok |-> TRUE, value |-> Obj(<< >>)]
    [] OTHER -> [ok |-> FALSE]

BODIES == {BODY_MEMBER, BODY_INBAND, BODY_GUESS, BODY_EMPTY, BODY_HTML}

\* JSON.stringify(value) without indentation, for values of JSON.parse whose
\* strings need no escaping: object members in Object.entries order
RECURSIVE JSONStringify(_)
RECURSIVE JoinMembers(_, _)
JoinMembers(texts, i) ==
  IF i > Len(texts) THEN ""
  ELSE (IF i > 1 THEN "," ELSE "") \o texts[i] \o JoinMembers(texts, i + 1)

JSONStringify(value) ==
  CASE value.t = "null" -> "null"
    [] value.t = "bool" -> IF value.b THEN "true" ELSE "false"
    [] value.t = "num" -> ToString(value.n)
    [] value.t \in {"inf", "nan"} -> "null"
    [] value.t = "str" -> "\"" \o value.s \o "\""
    [] value.t = "arr" ->
         "[" \o JoinMembers([i \in 1..Len(value.a) |-> JSONStringify(value.a[i])], 1) \o "]"
    [] value.t = "obj" ->
         LET entries == ObjectEntries(value.o)
         IN  "{" \o JoinMembers([i \in 1..Len(entries) |->
                                   "\"" \o entries[i][1] \o "\":"
                                     \o JSONStringify(entries[i][2])], 1) \o "}"

\* new RequestError(message, statusCode, body) / new AuthError(...) / new Error(message)
MkError(name, message, statusCode, body) ==
  [name |-> name, message |-> message, statusCode |-> statusCode, body |-> body]

\* the catch block testing for the base class instead
InstanceofAuthErrorLoose(e) == e.name \in {"RequestError", "AuthError"}

InstanceofAuthError(e) == e.name = "AuthError"

InstanceofRequestError(e) == e.name \in {"RequestError", "AuthError"}

\* the 'end' handler treating 403 as any other failure status
OnEndOnly401(rawStatus, data) ==
  LET statusCode == IF rawStatus.t = "undef" THEN 0 ELSE rawStatus.n
  IN  IF statusCode = 401
      THEN [ok |-> FALSE,
            error |-> MkError("AuthError", "Authentication failed", Num(statusCode), Str(data))]
      ELSE IF statusCode < 200 \/ statusCode >= 300
      THEN [ok |-> FALSE,
            error |-> MkError("RequestError", "Request failed", Num(statusCode), Str(data))]
      ELSE IF JSONParse(data).ok
      THEN [ok |-> TRUE, value |-> JSONParse(data).value]
      ELSE [ok |-> FALSE,
            error |-> MkError("Error", "Failed to parse JSON", Undefined, Undefined)]

\* the 'end' handler of requestJson (lines 299-315); statusCode is
\* response.statusCode, which may be undefined
OnEnd(rawStatus, data) ==
  LET statusCode == IF rawStatus.t = "undef" THEN 0 ELSE rawStatus.n
  IN  IF statusCode = 401 \/ statusCode = 403
      THEN [ok |-> FALSE,
            error |-> MkError("AuthError",
                              "Authentication failed (" \o ToString(statusCode)
                                \o "). Token may be invalid.",
                              Num(statusCode), Str(data))]
      ELSE IF statusCode < 200 \/ statusCode >= 300
      THEN [ok |-> FALSE,
            error |-> MkError("RequestError",
                              "Request failed (" \o ToString(statusCode) \o "): " \o data,
                              Num(statusCode), Str(data))]
      ELSE IF JSONParse(data).ok
      THEN [ok |-> TRUE, value |-> JSONParse(data).value]
      ELSE [ok |-> FALSE,
            error |-> MkError("Error", "Failed to parse JSON: " \o data,
                              Undefined, Undefined)]

\* how the promise of requestJson settles for what the transport delivers:
\* a response (the 'end' event) or a transport failure (the 'error' event,
\* rejected with the transport's own error)
RequestJson(net) ==
  IF net.kind = "error"
  THEN [ok |-> FALSE, error |-> MkError("Error", net.message, Undefined, Undefined)]
  ELSE OnEnd(net.statusCode, net.data)

\* the part of fetchUsage after requestJson settled with r (lines 230-237)
AfterRequest(r) ==
  LET authIssue == DetectAuthErrorResponse(r.value)
  IN  IF ~r.ok THEN r
      ELSE IF Truthy(authIssue)
      THEN [ok |-> FALSE,
            error |-> MkError("AuthError", "Authentication failed: " \o authIssue.s,
                              Num(200), Str(JSONStringify(r.value)))]
      ELSE r

FetchSettled(net) == AfterRequest(RequestJson(net))

\* the Cookie header of fetchUsage with a test that minds the letter case
CookieHeaderCaseSensitive(token) ==
  LET cookieHeader == Trim(token)
  IN  IF ~Includes(cookieHeader, COOKIE_NAME)
      THEN COOKIE_NAME \o cookieHeader
      ELSE cookieHeader

\* the Cookie header of fetchUsage (lines 216-219)
CookieHeader(token) ==
  LET cookieHeader == Trim(token)
  IN  IF ~Includes(ToLowerCase(cookieHeader), "workoscursorsessiontoken=")
      THEN COOKIE_NAME \o cookieHeader
      ELSE cookieHeader

\* ------------------------------------------------------------- the state
VARIABLES
  phase,          \* "loaded" | "active" | "inactive": before activate, after it, after deactivate
  settings,       \* the persisted cursorUsage.* configuration
  statusBarItem,  \* Undefined, or [text, tooltip, visible]
  refreshTimer,   \* 0 (undefined), or the id of the timer handle the module holds
  timers,         \* the interval timers alive in the event loop: [id, ms]
  isRefreshing,   \* the in-flight guard
  cycles,         \* the suspended invocations of refreshUsage, one frame each
  lastEvent,      \* history: the event handled last (a refresh trigger, the settings
                  \* UI opened, or another) and whether a trigger started a cycle
  lastCycle,      \* history: how the refresh cycle that ended last went, NoCycle once
                  \* another one has started
  started,        \* history: the number of refresh cycles started
  edits,          \* history: the number of edits of settings.json by the user
  call,           \* a direct call of one of the pure functions: its arguments
  ret             \* and what it returned

progVars == <<phase, settings, statusBarItem, refreshTimer, timers, isRefreshing,
              cycles>>

vars == <<phase, settings, statusBarItem, refreshTimer, timers, isRefreshing,
          cycles, lastEvent, lastCycle, started,
          edits, call, ret>>

\* ---------------------------------------------------------- configuration
Coalesce(v, default) == IF v.t \in {"undef", "null"} THEN default ELSE v.s

\* getConfig (lines 94-106)
GetConfig(st) ==
  [token |-> Trim(Coalesce(st.token, "")),
   email |-> Trim(Coalesce(st.email, "")),
   teamId |-> Trim(Coalesce(st.teamId, DEFAULT_TEAM_ID)),
   refreshIntervalMinutes |-> st.refreshIntervalMinutes,
   showPercentage |-> st.showPercentage,
   showInStatusBar |-> st.showInStatusBar,
   responseUsedField |-> Trim(st.responseUsedField),
   responseLimitField |-> Trim(st.responseLimitField)]

\* scheduleRefresh leaving a timer that is already armed as it is
ScheduleRefreshKeepsTimer(rt, ts, st) ==
  LET config == GetConfig(st)
  IN  IF rt # 0 THEN [refreshTimer |-> rt, timers |-> ts]
      ELSE IF config.refreshIntervalMinutes <= 0 THEN [refreshTimer |-> 0, timers |-> ts]
      ELSE [refreshTimer |-> 1,
            timers |-> ts \cup {[id |-> 1, ms |-> config.refreshIntervalMinutes * 60 * 1000]}]

\* scheduleRefresh (lines 108-122): the handle held and the live timers after it
ScheduleRefresh(rt, ts, st) ==
  LET cleared == IF rt # 0 THEN {h \in ts : h.id # rt} ELSE ts
      config == GetConfig(st)
      fresh == CHOOSE id \in 1..(Cardinality(cleared) + 1) : \A h \in cleared : h.id # id
  IN  IF config.refreshIntervalMinutes = 0 \/ config.refreshIntervalMinutes <= 0
      THEN [refreshTimer |-> 0, timers |-> cleared]
      ELSE [refreshTimer |-> fresh,
            timers |-> cleared \cup
                         {[id |-> fresh, ms |-> config.refreshIntervalMinutes * 60 * 1000]}]

\* updateStatus (lines 266-276)
UpdateStatus(item, text, tooltip) ==
  IF item = Undefined THEN item
  ELSE [item EXCEPT !.text = text, !.tooltip = tooltip]

\* ------------------------------------------------------------- rendering
\* the decimal digits of a natural number with en-US grouping ("1,234")
RECURSIVE Grouped(_)
Grouped(n) ==
  IF n < 1000 THEN ToString(n)
  ELSE LET r == n % 1000
       IN  Grouped(n \div 1000) \o ","
             \o (IF r < 10 THEN "00" ELSE IF r < 100 THEN "0" ELSE "") \o ToString(r)

\* formatValue (lines 559-570) on integers
FormatValue(value, path) ==
  LET lowerPath == IF path.t = "str" THEN ToLowerCase(path.s) ELSE ""
      abs == IF value < 0 THEN -value ELSE value
      sign == IF value < 0 THEN "-" ELSE ""
      cents == abs % 100
  IN  IF Includes(lowerPath, "cents")
      THEN sign \o "$" \o Grouped(abs \div 100) \o "."
             \o (IF cents < 10 THEN "0" ELSE "") \o ToString(cents)
      ELSE sign \o Grouped(abs)

\* ---- IEEE 754 binary64 arithmetic of line 258, on positive values: a value
\* is [m |-> 53 bits, most significant first, e |-> the exponent of m[1]];
\* the intermediate integers are kept as base-64 digits
MANTISSA == 53

POW2 == <<1, 2, 4, 8, 16, 32, 64, 128, 256, 512, 1024, 2048, 4096, 8192, 16384, 32768,
          65536, 131072, 262144, 524288, 1048576, 2097152, 4194304, 8388608, 16777216>>

Pow2(k) == POW2[k + 1]

\* the largest k with x * 2^k <= y, for 0 < x <= y
ShiftUp(x, y) == CHOOSE k \in 0..(Len(POW2) - 2) : x * Pow2(k) <= y /\ y < x * Pow2(k + 1)

\* n base-64 digits of the fraction rem / d, and the remainder left
RECURSIVE DivDigits(_, _, _)
DivDigits(rem, d, n) ==
  IF n = 0 THEN [digits |-> << >>, rem |-> rem]
  ELSE LET rest == DivDigits((rem * 64) % d, d, n - 1)
       IN  [digits |-> <<(rem * 64) \div d>> \o rest.digits, rem |-> rest.rem]

\* digits * c, with the carry out of the first digit
RECURSIVE TimesDigits(_, _)
TimesDigits(digits, c) ==
  IF digits = << >> THEN [digits |-> << >>, carry |-> 0]
  ELSE LET rest == TimesDigits(Tail(digits), c)
           v == Head(digits) * c + rest.carry
       IN  [digits |-> <<v % 64>> \o rest.digits, carry |-> v \div 64]

\* the bits of base-64 digits, and the digits of 54 bits
BitsOf(digits) ==
  [j \in 1..(6 * Len(digits)) |-> (digits[((j - 1) \div 6) + 1] \div Pow2(5 - ((j - 1) % 6))) % 2]

DigitsOf(bits) ==
  [k \in 1..(Len(bits) \div 6) |->
     32 * bits[6 * k - 5] + 16 * bits[6 * k - 4] + 8 * bits[6 * k - 3]
       + 4 * bits[6 * k - 2] + 2 * bits[6 * k - 1] + bits[6 * k]]

RECURSIVE BitsVal(_)
BitsVal(bits) ==
  LET n == Len(bits)
  IN  IF n = 0 THEN 0
      ELSE IF n = 1 THEN bits[1]
      ELSE IF n = 2 THEN 2 * bits[1] + bits[2]
      ELSE 8 * BitsVal(SubSeq(bits, 1, n - 3)) + 4 * bits[n - 2] + 2 * bits[n - 1] + bits[n]

\* round to nearest, ties to even: cmp compares what was cut off with half
\* a unit in the last place
RoundNearestEven(bits, e, cmp) ==
  LET up == cmp = "gt" \/ (cmp = "eq" /\ bits[Len(bits)] = 1)
  IN  IF ~up THEN [m |-> bits, e |-> e]
      ELSE IF \A i \in 1..Len(bits) : bits[i] = 1
      THEN [m |-> [i \in 1..Len(bits) |-> IF i = 1 THEN 1 ELSE 0], e |-> e + 1]
      ELSE LET last0 == CHOOSE i \in 1..Len(bits) :
                          bits[i] = 0 /\ \A j \in (i + 1)..Len(bits) : bits[j] = 1
           IN  [m |-> [i \in 1..Len(bits) |->
                         IF i < last0 THEN bits[i] ELSE IF i = last0 THEN 1 ELSE 0],
                e |-> e]

\* a / b for integers a, b > 0
FloatDiv(a, b) ==
  LET k == IF a >= b THEN ShiftUp(b, a)
           ELSE ShiftUp(a, b) + (IF a * Pow2(ShiftUp(a, b)) < b THEN 1 ELSE 0)
      r == IF a >= b THEN a ELSE a * Pow2(k)
      d == IF a >= b THEN b * Pow2(k) ELSE b
      top == 16 + ((r - d) * 16) \div d
      q == DivDigits(((r - d) * 16) % d, d, 8)
      bits == BitsOf(<<top>> \o q.digits)
      cmp == IF 2 * q.rem > d THEN "gt" ELSE IF 2 * q.rem = d THEN "eq" ELSE "lt"
  IN  RoundNearestEven(SubSeq(bits, 2, MANTISSA + 1), IF a >= b THEN k ELSE -k, cmp)

\* x * 100 for a positive x
FloatTimes100(x) ==
  LET p == TimesDigits(DigitsOf(<<0>> \o x.m), 100)
      all == BitsOf(<<p.carry>> \o p.digits)
      s == IF p.carry >= 32 THEN 1 ELSE 2
      cut == SubSeq(all, s + MANTISSA, Len(all))
      cmp == IF cut[1] = 0 THEN "lt"
             ELSE IF \A i \in 2..Len(cut) : cut[i] = 0 THEN "eq" ELSE "gt"
  IN  RoundNearestEven(SubSeq(all, s, s + MANTISSA - 1), x.e + 8 - s, cmp)

\* Math.round of x, or of -x when negative: halves go towards +Infinity
MathRound(x, negative) ==
  LET int == IF x.e < 0 THEN 0 ELSE BitsVal(SubSeq(x.m, 1, x.e + 1))
      half == IF x.e < -1 THEN 0 ELSE x.m[x.e + 2]
      below == \E i \in (x.e + 3)..MANTISSA : i >= 1 /\ x.m[i] = 1
  IN  IF negative THEN -(int + (IF half = 1 /\ below THEN 1 ELSE 0))
      ELSE int + half

\* Math.floor in place of Math.round
PercentFloor(used, limit) == (100 * used) \div limit

\* Math.round((used / limit) * 100) (line 258), for integers and limit > 0
Percent(used, limit) ==
  IF used = 0 THEN 0
  ELSE MathRound(FloatTimes100(FloatDiv(IF used < 0 THEN -used ELSE used, limit)), used < 0)

\* renderUsage (lines 240-264): the status text and tooltip it sets, and its
\* local percent (line 258), undefined when it is not computed
RenderUsage(usage, config, email, teamId) ==
  LET tooltip == "Cursor usage\n\nEmail: " \o email \o "\n\nTeam ID: " \o teamId
      usedText == FormatValue(usage.used.n, usage.usedPath)
      limitText == FormatValue(usage.limit.n, usage.limitPath)
      percent == Percent(usage.used.n, usage.limit.n)
  IN  IF usage.used = Undefined
      THEN [text |-> "Cursor: no data", tooltip |-> tooltip, percent |-> Undefined]
      ELSE IF usage.limit = Undefined
      THEN [text |-> "Cursor: " \o usedText, tooltip |-> tooltip, percent |-> Undefined]
      ELSE IF config.showPercentage /\ usage.limit.n > 0
      THEN [text |-> "Cursor: " \o usedText \o " / " \o limitText \o " ("
                       \o ToString(percent) \o "%)",
            tooltip |-> tooltip, percent |-> Num(percent)]
      ELSE [text |-> "Cursor: " \o usedText \o " / " \o limitText, tooltip |-> tooltip,
            percent |-> Undefined]

\* ------------------------------------------------- what the world supplies
\* answers to showInputBox: undefined is a cancelled prompt
TOKEN_INPUTS == {Undefined, Str("  "), Str(" tok ")}
EMAIL_INPUTS == {Undefined, Str(""), Str("A@x.com ")}
TEAMID_INPUTS == {Undefined, Str("12abc"), Str("abc")}

\* answers to the recovery choice: undefined is a dismissed message
AUTH_ACTIONS == {Undefined, Str("Update Token"), Str("Open Settings")}

\* what the transport delivers for one request
NETS ==
  {[kind |-> "error", message |-> "ECONNRESET"]} \cup
  {[kind |-> "end", statusCode |-> Num(200), data |-> d] : d \in BODIES} \cup
  {[kind |-> "end", statusCode |-> Num(sc), data |-> BODY_HTML] : sc \in {403, 500}}

\* values a user writes into settings.json
INTERVALS == {0, 30}
TEAMID_EDITS == {Str("abc")}

\* ------------------------------------------------------ the refresh cycle
\* the value of lastCycle while no cycle has ended since the last one started
NoCycle ==
  [trigger |-> "none", outcome |-> "none", requests |-> 0, warned |-> FALSE,
   error |-> "none", message |-> "", notice |-> ""]

\* the value of lastEvent after an event that is not a refresh trigger
NoTrigger == [kind |-> "other", refresh |-> "none"]

\* the value of lastEvent after a prompt was cancelled or answered with nothing
Declined == [kind |-> "declined", refresh |-> "none"]

\* the frame of one invocation of refreshUsage: its config snapshot and the
\* locals of ensureCredentials / handleAuthError
NewFrame(trigger, config) ==
  [pc |-> "start", trigger |-> trigger, config |-> config,
   token |-> config.token, email |-> config.email, teamId |-> config.teamId,
   input |-> "", requests |-> 0, warned |-> FALSE, error |-> "none", message |-> ""]

Without(i) == [j \in 1..(Len(cycles) - 1) |-> IF j < i THEN cycles[j] ELSE cycles[j + 1]]

\* the invocation stays suspended at f.pc
Suspend(rest, f, sb, guard) ==
  /\ cycles' = Append(rest, f)
  /\ isRefreshing' = guard
  /\ statusBarItem' = sb
  /\ lastCycle' = IF Len(rest) = Len(cycles) THEN NoCycle ELSE lastCycle

\* the invocation returns without the finally block
ConcludeKeepsGuard(rest, f, outcome, sb, notice) ==
  /\ cycles' = rest
  /\ isRefreshing' = isRefreshing
  /\ statusBarItem' = sb
  /\ lastCycle' = [trigger |-> f.trigger, outcome |-> outcome, requests |-> f.requests,
                   warned |-> f.warned, error |-> f.error, message |-> f.message,
                   notice |-> notice]

\* the invocation returns (or throws) through the finally block (line 160)
Conclude(rest, f, outcome, sb, notice) ==
  /\ cycles' = rest
  /\ isRefreshing' = FALSE
  /\ statusBarItem' = sb
  /\ lastCycle' = [trigger |-> f.trigger, outcome |-> outcome, requests |-> f.requests,
                   warned |-> f.warned, error |-> f.error, message |-> f.message,
                   notice |-> notice]

\* a catch block that passes an error that is not an AuthError on to the caller
FailedRethrows(rest, f, sb, error) ==
  Conclude(rest, [f EXCEPT !.error = error.name, !.message = error.message], "escaped",
           sb, "")

\* the catch block for an error that is not an AuthError (lines 155-158)
Failed(rest, f, sb, error) ==
  Conclude(rest, [f EXCEPT !.error = error.name, !.message = error.message], "failed",
           UpdateStatus(sb, "Cursor: error", error.message),
           "Cursor usage request failed: " \o error.message)

\* the catch block for an AuthError up to the recovery choice (lines 149-152, 328-332)
AuthRecovery(rest, f, sb, error, guard) ==
  Suspend(rest, [f EXCEPT !.pc = "authChoice", !.warned = TRUE, !.error = error.name,
                          !.message = error.message],
          UpdateStatus(sb, "Cursor: token expired", error.message), guard)

\* the prompt ensureCredentials stops at next, "ready" when nothing is missing
EnsureNext(f) ==
  IF f.token = "" THEN "promptToken"
  ELSE IF f.email = "" THEN "promptEmail"
  ELSE IF f.teamId = "" THEN "promptTeamId"
  ELSE "ready"

\* refreshUsage from ensureCredentials up to its next suspension: a prompt,
\* or the request of fetchUsage (lines 138-145, 164-230)
RunCycle(rest, f, sb, guard) ==
  IF EnsureNext(f) # "ready"
  THEN Suspend(rest, [f EXCEPT !.pc = EnsureNext(f)], sb, guard)
  ELSE LET loading == UpdateStatus(sb, "Cursor: loading...", "Fetching Cursor usage...")
       IN  IF ParseInt(f.teamId) = NaN
           THEN Failed(rest, f, loading,
                       MkError("Error", "Invalid teamId: " \o f.teamId, Undefined, Undefined))
           ELSE Suspend(rest, [f EXCEPT !.pc = "fetching", !.requests = f.requests + 1],
                        loading, guard)

\* refreshUsage without the test of the in-flight guard
RefreshUsageUnguarded(kind, sb) ==
  LET config == GetConfig(settings)
      shown == IF sb = Undefined THEN sb
               ELSE [sb EXCEPT !.visible = config.showInStatusBar]
  IN  /\ RunCycle(cycles, NewFrame(kind, config), shown, TRUE)
      /\ lastEvent' = [kind |-> kind, refresh |-> "started"]
      /\ started' = started + 1

\* refreshUsage (lines 124-136) called with the status bar item as the caller left it
RefreshUsage(kind, sb) ==
  IF isRefreshing
  THEN /\ statusBarItem' = sb
       /\ lastEvent' = [kind |-> kind, refresh |-> "dropped"]
       /\ UNCHANGED <<cycles, isRefreshing, lastCycle, started>>
  ELSE LET config == GetConfig(settings)
           shown == IF sb = Undefined THEN sb
                    ELSE [sb EXCEPT !.visible = config.showInStatusBar]
       IN  /\ RunCycle(cycles, NewFrame(kind, config), shown, TRUE)
           /\ lastEvent' = [kind |-> kind, refresh |-> "started"]
           /\ started' = started + 1

\* the commands activate registers (lines 70, 73); the host disposes them
\* with the other subscriptions when the extension is deactivated
REGISTERED_COMMANDS == {"cursorUsage.refresh", "cursorUsage.openSettings"}

Commands == IF phase = "active" THEN REGISTERED_COMMANDS ELSE {}

\* activate (lines 59-85)
Activate ==
  /\ phase = "loaded"
  /\ phase' = "active"
  /\ LET t == ScheduleRefresh(refreshTimer, timers, settings)
     IN  refreshTimer' = t.refreshTimer /\ timers' = t.timers
  /\ RefreshUsage("activate", [text |-> "Cursor: --", tooltip |-> "", visible |-> TRUE])
  /\ UNCHANGED <<settings, edits, call, ret>>

\* deactivate dropping its handle without clearInterval
DeactivateKeepsInterval ==
  /\ phase = "active"
  /\ phase' = "inactive"
  /\ refreshTimer' = 0
  /\ timers' = timers
  /\ lastEvent' = NoTrigger
  /\ UNCHANGED <<settings, statusBarItem, isRefreshing, cycles,
                 lastCycle, started, edits, call, ret>>

\* deactivate (lines 87-92); the host then disposes the subscriptions
Deactivate ==
  /\ phase = "active"
  /\ phase' = "inactive"
  /\ refreshTimer' = 0
  /\ timers' = IF refreshTimer # 0 THEN {h \in timers : h.id # refreshTimer} ELSE timers
  /\ lastEvent' = NoTrigger
  /\ UNCHANGED <<settings, statusBarItem, isRefreshing, cycles,
                 lastCycle, started, edits, call, ret>>

\* the setInterval callback (lines 119-121)
Tick ==
  /\ \E h \in timers : TRUE
  /\ isRefreshing \/ started < MaxCycles
  /\ RefreshUsage("tick", statusBarItem)
  /\ UNCHANGED <<phase, settings, refreshTimer, timers, edits, call, ret>>

\* the cursorUsage.refresh command (lines 70-72)
RefreshCommand ==
  /\ phase = "active"
  /\ isRefreshing \/ started < MaxCycles
  /\ RefreshUsage("command", statusBarItem)
  /\ UNCHANGED <<phase, settings, refreshTimer, timers, edits, call, ret>>

\* the cursorUsage.openSettings command (lines 73-75): the host opens its
\* settings page, the extension's own state stays as it is
OpenSettingsCommand ==
  /\ phase = "active"
  /\ lastEvent' = NoTrigger
  /\ UNCHANGED <<phase, settings, statusBarItem, refreshTimer, timers, isRefreshing,
                 cycles, lastCycle, started, edits, call, ret>>

\* the onDidChangeConfiguration listener (lines 76-80), run for settings st
OnDidChangeConfiguration(st) ==
  IF phase = "active"
  THEN LET t == ScheduleRefresh(refreshTimer, timers, st)
       IN  refreshTimer' = t.refreshTimer /\ timers' = t.timers
  ELSE UNCHANGED <<refreshTimer, timers>>

\* the user edits a cursorUsage setting; the host notifies the listener
EditSettings(st) ==
  /\ st # settings
  /\ edits < MaxEdits
  /\ edits' = edits + 1
  /\ settings' = st
  /\ OnDidChangeConfiguration(st)
  /\ lastEvent' = NoTrigger
  /\ UNCHANGED <<phase, statusBarItem, isRefreshing, cycles,
                 lastCycle, started, call, ret>>

ChangeConfiguration ==
  \/ \E m \in INTERVALS : EditSettings([settings EXCEPT !.refreshIntervalMinutes = m])
  \/ \E b \in BOOLEAN : EditSettings([settings EXCEPT !.showInStatusBar = b])
  \/ \E id \in TEAMID_EDITS : EditSettings([settings EXCEPT !.teamId = id])

\* (await showInputBox(...))?.trim() ?? ''
Answer(input) == IF input.t = "str" THEN Trim(input.s) ELSE ""

FieldOf(pc) ==
  CASE pc \in {"promptToken", "updateToken"} -> "token"
    [] pc \in {"promptEmail", "updateEmail"} -> "email"
    [] pc \in {"promptTeamId", "updateTeamId"} -> "teamId"

InputsOf(pc) ==
  CASE pc = "promptToken" -> TOKEN_INPUTS
    [] pc = "promptEmail" -> EMAIL_INPUTS
    [] pc = "promptTeamId" -> TEAMID_INPUTS

UpdatePc(pc) ==
  CASE pc = "promptToken" -> "updateToken"
    [] pc = "promptEmail" -> "updateEmail"
    [] pc = "promptTeamId" -> "updateTeamId"

SetLocal(f, field, value) ==
  CASE field = "token" -> [f EXCEPT !.token = value]
    [] field = "email" -> [f EXCEPT !.email = value]
    [] field = "teamId" -> [f EXCEPT !.teamId = value]

SetSetting(st, field, value) ==
  CASE field = "token" -> [st EXCEPT !.token = Str(value)]
    [] field = "email" -> [st EXCEPT !.email = Str(value)]
    [] field = "teamId" -> [st EXCEPT !.teamId = Str(value)]

\* ensureCredentials without the tests for an empty answer
AnswerPromptUnchecked(i, input) ==
  LET f == cycles[i]
      value == Answer(input)
  IN  /\ Suspend(Without(i),
                 [SetLocal(f, FieldOf(f.pc), value) EXCEPT !.pc = UpdatePc(f.pc)],
                 statusBarItem, isRefreshing)
      /\ lastEvent' = IF value = "" THEN Declined ELSE NoTrigger
      /\ UNCHANGED <<phase, settings, refreshTimer, timers, started,
                     edits, call, ret>>

\* a prompt of ensureCredentials is answered (lines 169-177, 182-189, 194-202):
\* an empty answer returns null and the cycle renders "missing settings"
\* (lines 139-142); otherwise section.update is called
AnswerPrompt(i, input) ==
  LET f == cycles[i]
      value == Answer(input)
  IN  /\ IF value = ""
         THEN Conclude(Without(i), f, "missing",
                       UpdateStatus(statusBarItem, "Cursor: missing settings",
                                    "Missing Cursor credentials"),
                       "")
         ELSE Suspend(Without(i),
                      [SetLocal(f, FieldOf(f.pc), value) EXCEPT !.pc = UpdatePc(f.pc)],
                      statusBarItem, isRefreshing)
      /\ lastEvent' = IF value = "" THEN Declined ELSE NoTrigger
      /\ UNCHANGED <<phase, settings, refreshTimer, timers, started,
                     edits, call, ret>>

PromptAnswered ==
  \E i \in 1..Len(cycles) :
    /\ cycles[i].pc \in {"promptToken", "promptEmail", "promptTeamId"}
    /\ \E input \in InputsOf(cycles[i].pc) : AnswerPrompt(i, input)

\* ensureCredentials keeping an accepted answer for the cycle only
UpdateSettledLocalOnly(i, ok) ==
  LET f == cycles[i]
  IN  /\ IF ok
         THEN /\ UNCHANGED <<settings, refreshTimer, timers>>
              /\ RunCycle(Without(i), f, statusBarItem, isRefreshing)
         ELSE /\ UNCHANGED <<settings, refreshTimer, timers>>
              /\ Failed(Without(i), f, statusBarItem,
                        MkError("Error", "Unable to write into user settings",
                                Undefined, Undefined))
      /\ lastEvent' = NoTrigger
      /\ UNCHANGED <<phase, started, edits, call, ret>>

\* section.update of ensureCredentials settles (lines 178, 190, 203): the
\* setting is written and the listener notified, or the write is rejected
UpdateSettled(i, ok) ==
  LET f == cycles[i]
      field == FieldOf(f.pc)
      value == CASE field = "token" -> f.token [] field = "email" -> f.email
                 [] field = "teamId" -> f.teamId
      st == SetSetting(settings, field, value)
  IN  /\ IF ok
         THEN /\ settings' = st
              /\ OnDidChangeConfiguration(st)
              /\ RunCycle(Without(i), f, statusBarItem, isRefreshing)
         ELSE /\ UNCHANGED <<settings, refreshTimer, timers>>
              /\ Failed(Without(i), f, statusBarItem,
                        MkError("Error", "Unable to write into user settings",
                                Undefined, Undefined))
      /\ lastEvent' = NoTrigger
      /\ UNCHANGED <<phase, started, edits, call, ret>>

SettingUpdated ==
  \E i \in 1..Len(cycles) :
    /\ cycles[i].pc \in {"updateToken", "updateEmail", "updateTeamId"}
    /\ \E ok \in BOOLEAN : UpdateSettled(i, ok)

\* the request of fetchUsage settles; the cycle runs on to its end or to the
\* recovery choice (lines 145-158, 230-237)
FetchSettles(i, net) ==
  LET f == cycles[i]
      r == FetchSettled(net)
      usage == ExtractUsage(r.value, f.config)
      shown == RenderUsage(usage, f.config, f.email, f.teamId)
  IN  /\ IF r.ok
         THEN Conclude(Without(i), f, "rendered",
                       UpdateStatus(statusBarItem, shown.text, shown.tooltip),
                       "")
         ELSE IF InstanceofAuthError(r.error)
         THEN AuthRecovery(Without(i), f, statusBarItem, r.error, isRefreshing)
         ELSE Failed(Without(i), f, statusBarItem, r.error)
      /\ lastEvent' = NoTrigger
      /\ UNCHANGED <<phase, settings, refreshTimer, timers, started,
                     edits, call, ret>>

ResponseArrives ==
  \E i \in 1..Len(cycles) :
    /\ cycles[i].pc = "fetching"
    /\ \E net \in NETS : FetchSettles(i, net)

\* the recovery choice of handleAuthError is answered (lines 334-347)
AuthChoice(i, action) ==
  LET f == cycles[i]
  IN  /\ IF action = Str("Update Token")
         THEN Suspend(Without(i), [f EXCEPT !.pc = "authToken"], statusBarItem,
                      isRefreshing)
         ELSE Conclude(Without(i), f, "auth", statusBarItem, "")
      /\ lastEvent' = NoTrigger
      /\ UNCHANGED <<phase, settings, refreshTimer, timers, started, edits, call, ret>>

RecoveryChosen ==
  \E i \in 1..Len(cycles) :
    /\ cycles[i].pc = "authChoice"
    /\ \E action \in AUTH_ACTIONS : AuthChoice(i, action)

\* the token prompt of handleAuthError is answered (lines 335-344)
AuthToken(i, input) ==
  LET f == cycles[i]
      token == Answer(input)
  IN  /\ IF token # ""
         THEN Suspend(Without(i), [f EXCEPT !.pc = "authUpdate", !.input = token],
                      statusBarItem, isRefreshing)
         ELSE Conclude(Without(i), f, "auth", statusBarItem, "")
      /\ lastEvent' = IF token = "" THEN Declined ELSE NoTrigger
      /\ UNCHANGED <<phase, settings, refreshTimer, timers, started,
                     edits, call, ret>>

RecoveryTokenEntered ==
  \E i \in 1..Len(cycles) :
    /\ cycles[i].pc = "authToken"
    /\ \E input \in TOKEN_INPUTS : AuthToken(i, input)

\* handleAuthError fetching again once the new token is stored
AuthUpdateSettledRetries(i, ok) ==
  LET f == cycles[i]
      st == SetSetting(settings, "token", f.input)
  IN  /\ IF ok
         THEN /\ settings' = st
              /\ OnDidChangeConfiguration(st)
              /\ Suspend(Without(i),
                         [f EXCEPT !.pc = "fetching", !.token = f.input,
                                   !.requests = f.requests + 1],
                         statusBarItem, isRefreshing)
         ELSE /\ UNCHANGED <<settings, refreshTimer, timers>>
              /\ Conclude(Without(i), f, "escaped", statusBarItem, "")
      /\ lastEvent' = NoTrigger
      /\ UNCHANGED <<phase, started, edits, call, ret>>

\* section.update of handleAuthError settles (line 343); a rejection leaves
\* refreshUsage through its finally block as a rejected promise
AuthUpdateSettled(i, ok) ==
  LET f == cycles[i]
      st == SetSetting(settings, "token", f.input)
  IN  /\ IF ok
         THEN /\ settings' = st
              /\ OnDidChangeConfiguration(st)
              /\ Conclude(Without(i), f, "auth", statusBarItem, "")
         ELSE /\ UNCHANGED <<settings, refreshTimer, timers>>
              /\ Conclude(Without(i), f, "escaped", statusBarItem, "")
      /\ lastEvent' = NoTrigger
      /\ UNCHANGED <<phase, started, edits, call, ret>>

RecoveryTokenStored ==
  \E i \in 1..Len(cycles) :
    /\ cycles[i].pc = "authUpdate"
    /\ \E ok \in BOOLEAN : AuthUpdateSettled(i, ok)

\* --------------------------------------------- direct calls of the functions
\* one-member and two-member objects over the given keys and values
Objects1(keys, values) == {Obj(<< <<k, v>> >>) : k \in keys, v \in values}

Objects2(keys, values) ==
  {Obj(<< <<k1, v1>>, <<k2, v2>> >>) :
     k1 \in keys, k2 \in keys, v1 \in values, v2 \in values} \
  {Obj(<< <<k, v1>>, <<k, v2>> >>) : k \in keys, v1 \in values, v2 \in values}

\* what the transport can deliver to requestJson
STATUS_CODES ==
  {Undefined} \cup
  {Num(sc) : sc \in {0, 100, 199, 200, 201, 204, 299, 300, 302, 400, 401, 402, 403,
                     404, 500}}

REQUEST_CALLS ==
  {[fn |-> "requestJson", net |-> [kind |-> "error", message |-> "ECONNRESET"]]} \cup
  {[fn |-> "requestJson", net |-> [kind |-> "end", statusCode |-> sc, data |-> d]] :
     sc \in STATUS_CODES, d \in BODIES}

\* parsed 2xx bodies handed to the in-band check of fetchUsage
AUTH_VALUES ==
  {Str("Unauthorized access"), Str("ok"), Str("Session EXPIRED"), Num(401), Null,
   Arr(<<Str("please Login")>>),
   Arr(<<Null, Obj(<< <<"message", Str("Forbidden")>> >>)>>),
   Arr(<<Obj(<< <<"message", Str("fine")>> >>), Str("nope")>>),
   Arr(<<Obj(<< <<"error", Str("bad token")>> >>), Num(7)>>),
   Obj(<< <<"message", Str("token")>> >>)}

AUTH_KEYS == {"error", "message", "detail", "errorMessage", "errors", "status"}

FETCH_RESPONSES ==
  {Null, Num(0), Bool(FALSE), Str("invalid token"), Arr(<<Str("auth")>>), Obj(<< >>)}
    \cup Objects1(AUTH_KEYS, AUTH_VALUES) \cup Objects2(AUTH_KEYS, AUTH_VALUES)

FETCH_CALLS == {[fn |-> "fetchUsage", response |-> r] : r \in FETCH_RESPONSES}

\* responses and configurations handed to extractUsage
Member(email, spend) == Obj(<< <<"email", email>>, <<"includedSpendCents", spend>> >>)

MEMBERS ==
  {Member(Str("a@x.com"), Num(1234)), Member(Str(" A@X.com "), Str("77")),
   Member(Str("b@x.com"), Num(5)), Member(Str("a@x.com"), Str("n/a")),
   Member(Str("a@x.com"), Str("")), Member(Num(1), Num(3)),
   Obj(<< <<"email", Str("a@x.com")>> >>), Null}

MEMBER_LISTS ==
  {<< >>} \cup {<<m>> : m \in MEMBERS} \cup {<<m1, m2>> : m1 \in MEMBERS, m2 \in MEMBERS}

EXTRACT_RESPONSES ==
  {Null, Arr(<< >>), Obj(<< <<"teamMemberSpend", Str("none")>> >>)} \cup
  {Obj(<< <<"teamMemberSpend", Arr(ms)>> >>) : ms \in MEMBER_LISTS} \cup
  {Obj(<< <<"spendCents", Num(500)>>, <<"teamMemberSpend", Arr(ms)>>,
          <<"spendLimitCents", Num(2000)>> >>) : ms \in MEMBER_LISTS} \cup
  {Obj(<< <<"teamMemberSpend", Arr(ms)>>, <<"totals", Obj(<< <<"Used", Str("9")>> >>)>> >>) :
     ms \in MEMBER_LISTS}

EXTRACT_CONFIGS ==
  {[email |-> e, responseUsedField |-> u, responseLimitField |-> ""] :
     e \in {"a@x.com", "A@x.COM", "", "c@x.com"}, u \in {"", "spendCents"}}

EXTRACT_CALLS ==
  {[fn |-> "extractUsage", response |-> r, config |-> c] :
     r \in EXTRACT_RESPONSES, c \in EXTRACT_CONFIGS}

\* values of a response member that extraction may take for a usage number
USAGE_VALUES ==
  {Num(0), Num(5), Num(-3), Infinity, NegInfinity,
   Str("12"), Str(" 7 "), Str("-4"), Str(""), Str("  "), Str("Infinity"),
   Str("-Infinity"), Str(" +Infinity"), Str("NaN"), Str("n/a"), Str("12abc"),
   Bool(TRUE), Null, Arr(<<Num(1)>>), Obj(<< <<"n", Num(1)>> >>)}

\* the value under a candidate key, for the heuristic search
KeyResponse(key, v) == Obj(<< <<key, v>> >>)

\* the value under a key no candidate list names, for a configured path
PathResponse(v) == Obj(<< <<"billing", Obj(<< <<"cents", v>> >>)>> >>)

\* the value as the spend of the account's team member entry
ProbeResponse(v) == Obj(<< <<"teamMemberSpend", Arr(<<Member(Str("a@x.com"), v)>>)>> >>)

NO_FIELDS == [email |-> "", responseUsedField |-> "", responseLimitField |-> ""]

USAGE_CALLS ==
  {[fn |-> "extractUsage", response |-> KeyResponse("spendCents", v), config |-> NO_FIELDS] :
     v \in USAGE_VALUES} \cup
  {[fn |-> "extractUsage", response |-> KeyResponse("spendLimitCents", v),
    config |-> NO_FIELDS] : v \in USAGE_VALUES} \cup
  {[fn |-> "extractUsage", response |-> PathResponse(v),
    config |-> [NO_FIELDS EXCEPT !.responseUsedField = "billing.cents"]] :
     v \in USAGE_VALUES} \cup
  {[fn |-> "extractUsage", response |-> PathResponse(v),
    config |-> [NO_FIELDS EXCEPT !.responseLimitField = "billing.cents"]] :
     v \in USAGE_VALUES} \cup
  {[fn |-> "extractUsage", response |-> ProbeResponse(v),
    config |-> [NO_FIELDS EXCEPT !.email = "a@x.com"]] : v \in USAGE_VALUES}

\* documents handed to guessUsagePath, up to three levels of nesting
GUESS_LEAVES == {Num(5), Str(" 7 "), Str("n/a")}

GUESS_INNER ==
  Objects1({"used", "x"}, GUESS_LEAVES) \cup
  {Arr(<<Obj(<< <<"Usage", Num(2)>> >>)>>), Arr(<<Num(1), Obj(<< <<"used", Str("3")>> >>)>>)}

GUESS_MIDDLE ==
  GUESS_LEAVES \cup GUESS_INNER \cup Objects1({"y", "2"}, GUESS_INNER)

GUESS_DATA ==
  {Null, Num(5), Arr(<< >>)} \cup
  Objects1({"used", "x", "1", ""}, GUESS_MIDDLE) \cup
  Objects2({"SPEND", "x", "1", "a.b"}, GUESS_MIDDLE) \cup
  {Arr(<<v1, v2>>) : v1 \in GUESS_INNER, v2 \in GUESS_INNER}

GUESS_CALLS ==
  {[fn |-> "guessUsagePath", data |-> d, candidates |-> USED_CANDIDATES] : d \in GUESS_DATA}

\* the same documents handed to extractUsage with no configured path and no
\* email: the path found by the search is resolved again (lines 414-424)
RESOLVE_CALLS ==
  {[fn |-> "extractUsage", response |-> d, config |-> NO_FIELDS] : d \in GUESS_DATA}

\* responses rendered after extraction: a used, a limit and a percent member
RENDER_USED ==
  {Undefined, Num(0), Num(2), Num(57), Num(1250), Num(-3), Str("7"), Str("n/a")}

RENDER_LIMITS == {Undefined, Num(0), Num(-5), Num(3), Num(200), Num(5000), Str("40")}

RenderResponse(used, limit) ==
  Obj((IF used = Undefined THEN << >> ELSE << <<"used", used>> >>)
        \o (IF limit = Undefined THEN << >> ELSE << <<"limit", limit>> >>)
        \o << <<"percent", Num(99)>> >>)

RENDER_CALLS ==
  {[fn |-> "renderUsage", response |-> RenderResponse(u, l),
    config |-> [email |-> "a@x.com", responseUsedField |-> "", responseLimitField |-> "",
                showPercentage |-> b]] :
     u \in RENDER_USED, l \in RENDER_LIMITS, b \in BOOLEAN}

\* credentials handed to fetchUsage: ensureCredentials returns them trimmed
\* and not empty
COOKIE_TOKENS ==
  {"tok", "a b", "=tok", "WorkosCursorSessionToken", "WorkosCursorSessionToken=",
   "WorkosCursorSessionToken=abc", "workoscursorsessiontoken=abc",
   "x=1; WORKOSCURSORSESSIONTOKEN=abc", "WorkosCursorSessionToken =abc",
   "orkosCursorSessionToken=abc"}

COOKIE_CALLS ==
  {[fn |-> "fetchUsageRequest",
    credentials |-> [token |-> t, email |-> "a@x.com", teamId |-> id]] :
     t \in COOKIE_TOKENS, id \in {DEFAULT_TEAM_ID, "abc"}}

NotCalled == [state |-> "none"]

\* requestJson: the one https.request the promise executor issues (lines 284-323)
RequestJsonSends ==
  /\ call.fn = "requestJson"
  /\ ret.state = "none"
  /\ ret' = [state |-> "sent", attempts |-> 1]
  /\ UNCHANGED <<progVars, lastEvent, lastCycle, started, edits, call>>

\* requestJson: the 'end' or 'error' event settles the promise (lines 299-319)
RequestJsonSettles ==
  /\ call.fn = "requestJson"
  /\ ret.state = "sent"
  /\ ret' = [state |-> "settled", attempts |-> ret.attempts, outcome |-> RequestJson(call.net)]
  /\ UNCHANGED <<progVars, lastEvent, lastCycle, started, edits, call>>

\* fetchUsage up to its call of requestJson (lines 209-230)
FetchUsageSends ==
  /\ call.fn = "fetchUsageRequest"
  /\ ret.state = "none"
  /\ ret' = IF ParseInt(call.credentials.teamId) = NaN
            THEN [state |-> "thrown",
                  error |-> MkError("Error", "Invalid teamId: " \o call.credentials.teamId,
                                    Undefined, Undefined)]
            ELSE [state |-> "sent", method |-> "POST",
                  body |-> "{\"teamId\":" \o ToString(ParseInt(call.credentials.teamId).n)
                             \o "}",
                  Cookie |-> CookieHeader(call.credentials.token)]
  /\ UNCHANGED <<progVars, lastEvent, lastCycle, started, edits, call>>

\* fetchUsage from the point where requestJson resolved with call.response
FetchUsageReturns ==
  /\ call.fn = "fetchUsage"
  /\ ret.state = "none"
  /\ ret' = [state |-> "returned",
             outcome |-> AfterRequest([ok |-> TRUE, value |-> call.response])]
  /\ UNCHANGED <<progVars, lastEvent, lastCycle, started, edits, call>>

ExtractUsageReturns ==
  /\ call.fn = "extractUsage"
  /\ ret.state = "none"
  /\ ret' = [state |-> "returned", value |-> ExtractUsage(call.response, call.config)]
  /\ UNCHANGED <<progVars, lastEvent, lastCycle, started, edits, call>>

GuessUsagePathReturns ==
  /\ call.fn = "guessUsagePath"
  /\ ret.state = "none"
  /\ ret' = [state |-> "returned", value |-> GuessUsagePath(call.data, call.candidates)]
  /\ UNCHANGED <<progVars, lastEvent, lastCycle, started, edits, call>>

\* lines 146-147 of refreshUsage: extractUsage, then renderUsage of its result
RenderUsageReturns ==
  /\ call.fn = "renderUsage"
  /\ ret.state = "none"
  /\ LET usage == ExtractUsage(call.response, call.config)
     IN  ret' = [state |-> "returned", usage |-> usage,
                 value |-> RenderUsage(usage, call.config, call.config.email,
                                       DEFAULT_TEAM_ID)]
  /\ UNCHANGED <<progVars, lastEvent, lastCycle, started, edits, call>>

\* --------------------------------------------------------- specification
FRESH_SETTINGS ==
  [token |-> Undefined, email |-> Undefined, teamId |-> Undefined,
   refreshIntervalMinutes |-> DEFAULT_INTERVAL, showPercentage |-> TRUE,
   showInStatusBar |-> TRUE, responseUsedField |-> "", responseLimitField |-> ""]

CONFIGURED_SETTINGS ==
  [FRESH_SETTINGS EXCEPT !.token = Str("tok"), !.email = Str("a@x.com")]

\* configured, but with the team id setting emptied and a negative interval
NO_TEAM_SETTINGS ==
  [CONFIGURED_SETTINGS EXCEPT !.teamId = Str(" "), !.refreshIntervalMinutes = -5]

NoCall == [fn |-> "none"]

Init ==
  /\ phase = "loaded"
  /\ settings \in {FRESH_SETTINGS, CONFIGURED_SETTINGS, NO_TEAM_SETTINGS}
  /\ statusBarItem = Undefined
  /\ refreshTimer = 0
  /\ timers = {}
  /\ isRefreshing = FALSE
  /\ cycles = <<>>
  /\ lastEvent = NoTrigger
  /\ lastCycle = NoCycle
  /\ started = 0
  /\ edits = 0
  /\ call = NoCall
  /\ ret = NotCalled

Next ==
  \/ Activate
  \/ Deactivate
  \/ Tick
  \/ RefreshCommand
  \/ OpenSettingsCommand
  \/ ChangeConfiguration
  \/ PromptAnswered
  \/ SettingUpdated
  \/ ResponseArrives
  \/ RecoveryChosen
  \/ RecoveryTokenEntered
  \/ RecoveryTokenStored

Spec == Init /\ [][Next]_vars

\* the prompts, the settings writes and the request of a cycle all settle
FairSpec ==
  /\ Spec
  /\ WF_vars(PromptAnswered)
  /\ WF_vars(SettingUpdated)
  /\ WF_vars(ResponseArrives)
  /\ WF_vars(RecoveryChosen)
  /\ WF_vars(RecoveryTokenEntered)
  /\ WF_vars(RecoveryTokenStored)

\* the functions called directly, on every argument of the families above
InitCalls ==
  /\ phase = "loaded"
  /\ settings = FRESH_SETTINGS
  /\ statusBarItem = Undefined
  /\ refreshTimer = 0
  /\ timers = {}
  /\ isRefreshing = FALSE
  /\ cycles = <<>>
  /\ lastEvent = NoTrigger
  /\ lastCycle = NoCycle
  /\ started = 0
  /\ edits = 0
  /\ call \in REQUEST_CALLS \cup FETCH_CALLS \cup EXTRACT_CALLS \cup GUESS_CALLS
              \cup RENDER_CALLS \cup COOKIE_CALLS \cup USAGE_CALLS \cup RESOLVE_CALLS
  /\ ret = NotCalled

NextCalls ==
  \/ RequestJsonSends
  \/ RequestJsonSettles
  \/ FetchUsageReturns
  \/ ExtractUsageReturns
  \/ GuessUsagePathReturns
  \/ RenderUsageReturns
  \/ FetchUsageSends

SpecCalls == InitCalls /\ [][NextCalls]_vars

\* ------------------------------------------------------------ properties
Interval == GetConfig(settings).refreshIntervalMinutes

PromptPcs == {"promptToken", "promptEmail", "promptTeamId"}

RecoveryPcs == {"authChoice", "authToken", "authUpdate"}

InRecovery == \E i \in 1..Len(cycles) : cycles[i].pc \in RecoveryPcs

Fetching == \E i \in 1..Len(cycles) : cycles[i].pc = "fetching"

\* this step is the end of a refresh cycle: a suspended invocation returns,
\* or a trigger starts one that returns before it suspends
EndsCycle ==
  \/ Len(cycles') < Len(cycles)
  \/ started' = started + 1 /\ Len(cycles') = Len(cycles)

HasPrefix(s, prefix) == Len(s) >= Len(prefix) /\ SubSeq(s, 1, Len(prefix)) = prefix

\* C1: at most one refresh cycle is in flight, a trigger (timer, command,
\* activation) that arrives while the guard is set is dropped and changes
\* nothing of the program's state, and a cycle is only ever started with the
\* guard clear.
C1_OneCycleAtATime ==
  /\ [](Len(cycles) <= 1)
  /\ [][(isRefreshing /\ lastEvent'.kind \in {"tick", "command", "activate"})
          => (lastEvent'.refresh = "dropped" /\ started' = started /\ UNCHANGED progVars)]_vars
  /\ [][started' # started => ~isRefreshing]_vars

C1_Witness ==
  /\ lastEvent.refresh = "dropped"
  /\ Len(cycles) = 1
  /\ cycles[1].pc = "authChoice"
  /\ cycles[1].requests = 1

\* C2: the guard is set exactly while a cycle is in flight, every cycle that
\* starts comes to its end and releases the guard (given that prompts, settings
\* writes and the request settle), and a timer tick or refresh command that
\* finds no cycle in flight starts a fresh one.
C2_GuardReleased ==
  /\ [](isRefreshing <=> Len(cycles) > 0)
  /\ (isRefreshing ~> ~isRefreshing)
  /\ [][(~isRefreshing /\ lastEvent'.kind \in {"tick", "command"})
          => (started' = started + 1 /\ lastEvent'.refresh = "started")]_vars

C2_Witness ==
  /\ started = 2
  /\ isRefreshing
  /\ lastEvent.refresh = "started"

\* C3: a cycle that failed with AuthError shows "Cursor: token expired" and
\* has presented the recovery choice; while the recovery runs (choice, token
\* prompt, token write) no request is issued and no cycle is started, so every
\* request belongs to a cycle started by a trigger.
C3_AuthRecovery ==
  /\ [](\A i \in 1..Len(cycles) :
          /\ cycles[i].pc \in RecoveryPcs <=> cycles[i].error = "AuthError"
          /\ cycles[i].pc \in RecoveryPcs =>
               /\ statusBarItem.text = "Cursor: token expired"
               /\ statusBarItem.tooltip = cycles[i].message
               /\ cycles[i].warned)
  /\ [](lastCycle.error = "AuthError" => lastCycle.warned /\ lastCycle.requests = 1)
  /\ [][InRecovery => (~Fetching' /\ started' = started
                        /\ \A j \in 1..Len(cycles') : cycles'[j].requests = cycles[1].requests)]_vars

C3_Witness ==
  /\ Len(cycles) = 1
  /\ cycles[1].pc = "authUpdate"
  /\ cycles[1].input = "tok"
  /\ statusBarItem.text = "Cursor: token expired"

\* C6: a cycle that fails with an error other than AuthError ends at once in
\* the generic error state, with the error's message as tooltip and
\* notification, without the recovery choice; an invalid team id fails the
\* cycle before any request.
C6_OtherErrorsFail ==
  /\ [](\A i \in 1..Len(cycles) : cycles[i].error \in {"none", "AuthError"})
  /\ [][(EndsCycle /\ lastCycle'.error \notin {"none", "AuthError"})
          => /\ lastCycle'.outcome = "failed"
             /\ ~lastCycle'.warned
             /\ ~InRecovery'
             /\ statusBarItem'.text = "Cursor: error"
             /\ statusBarItem'.tooltip = lastCycle'.message
             /\ lastCycle'.notice = "Cursor usage request failed: " \o lastCycle'.message]_vars
  /\ [][(EndsCycle /\ HasPrefix(lastCycle'.message, "Invalid teamId: "))
          => lastCycle'.requests = 0 /\ lastCycle'.outcome = "failed"]_vars
  /\ [][(EndsCycle /\ lastCycle'.outcome = "failed") => lastCycle'.error # "AuthError"]_vars

C6_Witness ==
  /\ lastCycle.error = "RequestError"
  /\ lastCycle.outcome = "failed"
  /\ Len(cycles) = 0
  /\ statusBarItem.text = "Cursor: error"
  /\ statusBarItem.tooltip = "Request failed (500): <html>"

\* C7: when a prompt of ensureCredentials is cancelled or answered with
\* nothing, the cycle ends in "Cursor: missing settings" and has issued no
\* request; a cycle ends as "missing" in no other way.
C7_MissingSettings ==
  /\ [][((\E i \in 1..Len(cycles) : cycles[i].pc \in PromptPcs) /\ lastEvent'.kind = "declined")
          => /\ Len(cycles') = 0
             /\ ~isRefreshing'
             /\ lastCycle'.outcome = "missing"
             /\ lastCycle'.requests = 0
             /\ statusBarItem'.text = "Cursor: missing settings"]_vars
  /\ [][(EndsCycle /\ lastCycle'.outcome = "missing")
          => lastEvent'.kind = "declined" /\ lastCycle'.requests = 0]_vars

C7_Witness ==
  /\ lastEvent.kind = "declined"
  /\ lastCycle.outcome = "missing"
  /\ lastCycle.requests = 0
  /\ statusBarItem.text = "Cursor: missing settings"
  /\ settings.token = Str("tok")
  /\ settings.email = Undefined

\* C8: while the extension is active the one live timer is the one armed for
\* the interval configured now, and there is none when that interval is zero
\* or negative; a tick only happens with a positive interval, and the refresh
\* command starts a cycle whenever none is in flight, whatever the interval.
C8_TimerFollowsInterval ==
  /\ [](phase = "active" =>
          IF Interval > 0
          THEN refreshTimer # 0 /\ timers = {[id |-> refreshTimer, ms |-> Interval * 60000]}
          ELSE refreshTimer = 0 /\ timers = {})
  /\ [][lastEvent'.kind = "tick" => Interval > 0]_vars
  /\ [][(lastEvent'.kind = "command" /\ ~isRefreshing /\ Interval <= 0)
          => lastEvent'.refresh = "started"]_vars

C8_Witness ==
  /\ phase = "active"
  /\ edits = 1
  /\ Interval = 30
  /\ timers = {[id |-> refreshTimer, ms |-> 1800000]}
  /\ lastEvent.kind = "tick"

\* C4: requestJson makes one request and settles by the status code alone
\* before it looks at the body: 401 and 403 reject with AuthError, any other
\* status outside [200,300) rejects with a RequestError that is no AuthError
\* and carries the status and the raw body, a 2xx status resolves with the
\* parsed body or rejects with a plain Error when the body is not JSON.
C4_StatusClassification ==
  (call.fn = "requestJson" /\ ret.state = "settled" /\ call.net.kind = "end") =>
    LET sc == IF call.net.statusCode = Undefined THEN 0 ELSE call.net.statusCode.n
        out == ret.outcome
    IN  /\ ret.attempts = 1
        /\ sc \in {401, 403} => ~out.ok /\ out.error.name = "AuthError"
        /\ (sc \notin {401, 403} /\ (sc < 200 \/ sc >= 300)) =>
             /\ ~out.ok
             /\ out.error.name = "RequestError"
             /\ out.error.statusCode = Num(sc)
             /\ out.error.body = Str(call.net.data)
        /\ (sc >= 200 /\ sc < 300 /\ JSONParse(call.net.data).ok) =>
             out.ok /\ out.value = JSONParse(call.net.data).value
        /\ (sc >= 200 /\ sc < 300 /\ ~JSONParse(call.net.data).ok) =>
             ~out.ok /\ out.error.name \notin {"AuthError", "RequestError"}

C4_Witness ==
  /\ call.fn = "requestJson"
  /\ ret.state = "settled"
  /\ call.net.kind = "end"
  /\ call.net.statusCode = Num(403)
  /\ call.net.data = BODY_MEMBER
  /\ ret.outcome.error.name = "AuthError"

\* a string that matches one of the six words, in any letter case
IsAuthText(v) ==
  /\ v.t = "str"
  /\ \E w \in {"token", "unauthorized", "forbidden", "auth", "login", "expired"} :
       Includes(ToLowerCase(v.s), w)

\* the body is an object that carries an auth signal in one of the places named
AuthSignal(body) ==
  /\ body.t = "obj"
  /\ \/ \E i \in 1..Len(body.o) :
          /\ body.o[i][1] \in {"error", "message", "detail", "errorMessage"}
          /\ IsAuthText(body.o[i][2])
     \/ \E i \in 1..Len(body.o) :
          /\ body.o[i][1] = "errors"
          /\ body.o[i][2].t = "arr"
          /\ \E j \in 1..Len(body.o[i][2].a) :
               LET entry == body.o[i][2].a[j]
               IN  \/ IsAuthText(entry)
                   \/ /\ entry.t = "obj"
                      /\ \E m \in 1..Len(entry.o) :
                           entry.o[m][1] = "message" /\ IsAuthText(entry.o[m][2])

\* C5: a parsed 2xx body makes fetchUsage fail with AuthError exactly when it
\* is an object with an auth signal in error, message, detail, errorMessage or
\* in the errors array; any other body is returned as it is.
C5_InBandAuth ==
  (call.fn = "fetchUsage" /\ ret.state = "returned") =>
    IF AuthSignal(call.response)
    THEN ~ret.outcome.ok /\ ret.outcome.error.name = "AuthError"
    ELSE ret.outcome.ok /\ ret.outcome.value = call.response

C5_Witness ==
  /\ call.fn = "fetchUsage"
  /\ ret.state = "returned"
  /\ call.response = Obj(<< <<"error", Str("Unauthorized access")>> >>)
  /\ ~ret.outcome.ok
  /\ ret.outcome.error.name = "AuthError"

\* the member entry carries the account email, trimmed and in any letter case
EmailMatches(entry, email) ==
  /\ entry.t = "obj"
  /\ GetProp(entry, "email").t = "str"
  /\ ToLowerCase(Trim(GetProp(entry, "email").s)) = ToLowerCase(Trim(email))

\* the number the entry's includedSpendCents stands for
SpendOf(entry) ==
  LET v == GetProp(entry, "includedSpendCents")
  IN  IF TypeofNumber(v) THEN v ELSE IF v.t = "str" THEN ToNumber(v.s) ELSE Undefined

\* the 1-based positions of the known-shape matches of a response
KnownShape(response, email) ==
  IF response.t = "obj" /\ GetProp(response, "teamMemberSpend").t = "arr" /\ email # ""
  THEN LET a == GetProp(response, "teamMemberSpend").a
       IN  {i \in 1..Len(a) : EmailMatches(a[i], email) /\ IsNumeric(GetProp(a[i], "includedSpendCents"))}
  ELSE {}

\* used and usedPath of the result come from a team member entry that carries
\* the account email, no later than the first known-shape match
FromMemberProbe(response, email, result) ==
  LET a == GetProp(response, "teamMemberSpend").a
  IN  \E j \in 1..Len(a) :
        /\ \A i \in KnownShape(response, email) : j <= i
        /\ EmailMatches(a[j], email)
        /\ result.usedPath = Str(MemberPath(j - 1))
        /\ result.used = SpendOf(a[j])
        /\ TypeofNumber(result.used)

\* C9 as stated: whenever a known-shape match exists, used and usedPath come
\* from the team member probe.
C9_KnownShapeAlways ==
  (call.fn = "extractUsage" /\ ret.state = "returned"
     /\ KnownShape(call.response, call.config.email) # {}) =>
    FromMemberProbe(call.response, call.config.email, ret.value)

\* C9 (amended): when no responseUsedField is configured and a known-shape
\* match exists, used and usedPath come from the team member probe, whatever
\* candidate keys the document has; a configured responseUsedField is the
\* usedPath instead.
C9_KnownShapeFirst ==
  (call.fn = "extractUsage" /\ ret.state = "returned"
     /\ KnownShape(call.response, call.config.email) # {}) =>
    IF call.config.responseUsedField = ""
    THEN FromMemberProbe(call.response, call.config.email, ret.value)
    ELSE ret.value.usedPath = Str(call.config.responseUsedField)

C9_Witness ==
  /\ call.fn = "extractUsage"
  /\ ret.state = "returned"
  /\ call.config.email = "a@x.com"
  /\ call.config.responseUsedField = ""
  /\ call.response =
       Obj(<< <<"spendCents", Num(500)>>,
              <<"teamMemberSpend", Arr(<<Member(Str("a@x.com"), Num(1234))>>)>>,
              <<"spendLimitCents", Num(2000)>> >>)
  /\ ret.value.used = Num(1234)
  /\ ret.value.usedPath = Str("teamMemberSpend.0.includedSpendCents")

\* every key of the document whose lower-cased name is a target and whose
\* value is numeric: its dotted path and its position at each level, the
\* object keys counted in Object.entries order (jsOrder) or in creation order
RECURSIVE KeyMatches(_, _, _, _, _)
KeyMatches(v, path, ranks, targetKeys, jsOrder) ==
  IF v.t = "arr"
  THEN UNION {KeyMatches(v.a[i], NextPath(path, ToString(i - 1)), Append(ranks, i),
                         targetKeys, jsOrder) : i \in 1..Len(v.a)}
  ELSE IF v.t = "obj"
  THEN LET entries == IF jsOrder THEN ObjectEntries(v.o) ELSE v.o
       IN  UNION {(IF ToLowerCase(entries[i][1]) \in targetKeys /\ IsNumeric(entries[i][2])
                   THEN {[ranks |-> Append(ranks, i), path |-> NextPath(path, entries[i][1])]}
                   ELSE {})
                  \cup KeyMatches(entries[i][2], NextPath(path, entries[i][1]),
                                  Append(ranks, i), targetKeys, jsOrder) :
                  i \in 1..Len(entries)}
  ELSE {}

\* a comes before b, for two position sequences of the same length
Before(a, b) ==
  \E i \in 1..Len(a) : a[i] < b[i] /\ \A j \in 1..(i - 1) : a[j] = b[j]

\* the shallowest match, the first in enumeration order among the shallowest
FirstShallowest(data, candidates, jsOrder) ==
  LET M == KeyMatches(data, "", <<>>, {ToLowerCase(candidates[i]) : i \in 1..Len(candidates)},
                      jsOrder)
      best == CHOOSE m \in M :
                \A n \in M : \/ Len(m.ranks) < Len(n.ranks)
                             \/ Len(m.ranks) = Len(n.ranks) /\ (m = n \/ Before(m.ranks, n.ranks))
  IN  IF M = {} THEN Undefined ELSE Str(best.path)

\* C10 as stated: guessUsagePath returns the shallowest matching key, among
\* the shallowest the first with object keys taken in insertion order, and no
\* path exactly when there is no matching key.
C10_InsertionOrder ==
  (call.fn = "guessUsagePath" /\ ret.state = "returned") =>
    ret.value = FirstShallowest(call.data, call.candidates, FALSE)

\* C10 (amended): guessUsagePath returns the shallowest matching key, among the
\* shallowest the first in JavaScript enumeration order (array elements by
\* index; object keys that are array indices first, ascending, then the other
\* keys in insertion order), and no path exactly when there is no matching key.
C10_ShallowestFirst ==
  (call.fn = "guessUsagePath" /\ ret.state = "returned") =>
    ret.value = FirstShallowest(call.data, call.candidates, TRUE)

C10_Witness ==
  /\ call.fn = "guessUsagePath"
  /\ ret.state = "returned"
  /\ call.data = Obj(<< <<"x", Obj(<< <<"y", Obj(<< <<"used", Num(5)>> >>)>> >>)>>,
                        <<"a.b", Obj(<< <<"used", Str(" 7 ")>> >>)>> >>)
  /\ ret.value = Str("a.b.used")

\* C11 as stated: there is a percent exactly when used and limit are defined
\* and limit > 0, and it is exactly used / limit * 100.
C11_PercentExact ==
  (call.fn = "renderUsage" /\ ret.state = "returned") =>
    LET used == ret.usage.used
        limit == ret.usage.limit
        percent == ret.value.percent
    IN  /\ percent # Undefined <=> (used # Undefined /\ limit # Undefined /\ limit.n > 0)
        /\ percent # Undefined => percent.n * limit.n = 100 * used.n

\* C11: a percentage is computed exactly when used and limit are defined,
\* limit > 0 and showPercentage is on; it is then a whole number nearest to
\* used / limit * 100 and the text ends with it; it depends on used and limit
\* alone, whatever percent member the response has, and the result of the
\* extraction has no percent of its own.
C11_PercentRounded ==
  (call.fn = "renderUsage" /\ ret.state = "returned") =>
    LET used == ret.usage.used
        limit == ret.usage.limit
        percent == ret.value.percent
        diff == percent.n * limit.n - 100 * used.n
    IN  /\ percent # Undefined <=>
             (used # Undefined /\ limit # Undefined /\ limit.n > 0
                /\ call.config.showPercentage)
        /\ percent # Undefined =>
             /\ 2 * (IF diff < 0 THEN -diff ELSE diff) <= limit.n
             /\ Includes(ret.value.text, " (" \o ToString(percent.n) \o "%)")
        /\ percent = Undefined => ~Includes(ret.value.text, "%")
        /\ DOMAIN ret.usage = {"used", "limit", "usedPath", "limitPath", "raw"}
        /\ ret.usage.usedPath # Str("percent") /\ ret.usage.limitPath # Str("percent")

C11_Witness ==
  /\ call.fn = "renderUsage"
  /\ ret.state = "returned"
  /\ ret.usage.used = Num(57)
  /\ ret.usage.limit = Num(200)
  /\ ret.value.percent = Num(28)
  /\ GetProp(call.response, "percent") = Num(99)

\* the cookie name occurs in text at some position, in any letter case
ContainsCookieName(text) ==
  \E i \in 1..(Len(text) - Len(COOKIE_NAME) + 1) :
    \A j \in 1..Len(COOKIE_NAME) :
      LowerChar(CharAt(text, i + j - 1)) = LowerChar(CharAt(COOKIE_NAME, j))

\* C12: the Cookie header sent is the token unchanged when the token has the
\* cookie name in any letter case, and the cookie name followed by the token
\* otherwise; the header always has the cookie name, and prefixing the header
\* again changes nothing.
C12_CookiePrefix ==
  (call.fn = "fetchUsageRequest" /\ ret.state = "sent") =>
    LET token == call.credentials.token
    IN  /\ ContainsCookieName(token) => ret.Cookie = token
        /\ ~ContainsCookieName(token) => ret.Cookie = COOKIE_NAME \o token
        /\ ContainsCookieName(ret.Cookie)
        /\ CookieHeader(ret.Cookie) = ret.Cookie

C12_Witness ==
  /\ call.fn = "fetchUsageRequest"
  /\ ret.state = "sent"
  /\ call.credentials.token = "workoscursorsessiontoken=abc"
  /\ ret.Cookie = "workoscursorsessiontoken=abc"

\* the plaintext setting cursorUsage.token holds no token
NoPlaintextToken(st) == st.token = Undefined \/ st.token = Str("")

\* C13: whenever the extension stores a token the plaintext token setting is
\* left empty (the token goes to secret storage), and once a cycle has sent a
\* request a token found in the plaintext setting has been moved out of it.
C13_TokenLeavesPlaintext ==
  /\ [][settings'.token # settings.token => NoPlaintextToken(settings')]_vars
  /\ [](lastCycle.requests > 0 => NoPlaintextToken(settings))

\* C14: while the extension is active it exposes the three commands refresh,
\* openSettings and updateToken.
C14_ThreeCommands ==
  phase = "active" =>
    Commands = {"cursorUsage.refresh", "cursorUsage.openSettings", "cursorUsage.updateToken"}

\* C15: once a cycle has rendered, a change of the indicator's visibility
\* setting shows at once in the indicator and starts no cycle or request.
C15_RerenderOnChange ==
  [][(settings'.showInStatusBar # settings.showInStatusBar
        /\ phase = "active" /\ lastCycle.outcome = "rendered")
       => /\ statusBarItem'.visible = settings'.showInStatusBar
          /\ started' = started
          /\ ~Fetching']_vars

\* C16: the step in which the request of a cycle settles, or in which
\* fetchUsage rejects the team id, ends the cycle as rendered or as failed
\* with "Cursor: error" and the guard released, or leaves it at the recovery
\* choice with "Cursor: token expired"; refreshUsage only ever rejects from
\* the settings write of the recovery, after an AuthError was caught.
C16_ErrorsCaught ==
  /\ [][(Fetching /\ ~Fetching')
          => \/ lastCycle'.outcome = "rendered" /\ lastCycle'.error = "none" /\ ~isRefreshing'
             \/ /\ lastCycle'.outcome = "failed"
                /\ lastCycle'.error \in {"Error", "RequestError"}
                /\ statusBarItem'.text = "Cursor: error"
                /\ ~isRefreshing'
             \/ /\ InRecovery'
                /\ statusBarItem'.text = "Cursor: token expired"]_vars
  /\ [][(EndsCycle /\ HasPrefix(lastCycle'.message, "Invalid teamId: "))
          => statusBarItem'.text = "Cursor: error" /\ ~isRefreshing']_vars
  /\ [](lastCycle.outcome = "escaped" => lastCycle.error = "AuthError" /\ lastCycle.warned)

C16_Witness ==
  /\ lastCycle.outcome = "failed"
  /\ HasPrefix(lastCycle.message, "Failed to parse JSON: ")
  /\ lastCycle.requests = 1
  /\ statusBarItem.text = "Cursor: error"
  /\ ~isRefreshing

\* ---------------------------------------------------------------- C17
\* a finite number, or a string that parses to one by decimal parsing
UsableNumber(v) ==
  \/ v.t = "num"
  \/ v.t = "str" /\ Trim(v.s) # "" /\ ToNumber(v.s).t = "num"

\* C17: a response value is accepted as a usage number, by the heuristic key
\* match, by the path lookup and by the team member probe, if and only if it
\* is a finite number or a string that parses to a finite number; otherwise
\* the corresponding used or limit is absent.
C17_FiniteOnly ==
  (call.fn = "extractUsage" /\ ret.state = "returned") =>
    \A v \in USAGE_VALUES :
      /\ (call.response \in {KeyResponse("spendCents", v), ProbeResponse(v)}
            \/ (call.response = PathResponse(v) /\ call.config.responseUsedField # ""))
           => (ret.value.used # Undefined <=> UsableNumber(v))
      /\ (call.response = KeyResponse("spendLimitCents", v)
            \/ (call.response = PathResponse(v) /\ call.config.responseLimitField # ""))
           => (ret.value.limit # Undefined <=> UsableNumber(v))

\* ---------------------------------------------------------------- C18
\* C18: in every refresh cycle the account email handed to extraction (the
\* email of the config passed to extractUsage at line 146) is the email the
\* cycle's credentials carry, also when that email was supplied through the
\* prompt during the cycle.
C18_ExtractionEmail ==
  \A i \in 1..Len(cycles) :
    cycles[i].pc = "fetching" => cycles[i].config.email = cycles[i].email

\* ---------------------------------------------------------------- C19
\* the answer accepted for the token / the email earlier in cycle f is the
\* value of the setting in st
TokenPersisted(f, st) ==
  (f.token # f.config.token /\ f.pc # "updateToken") => st.token = Str(f.token)

EmailPersisted(f, st) ==
  (f.email # f.config.email /\ f.pc # "updateEmail") => st.email = Str(f.email)

CredentialSettings(st) == <<st.token, st.email, st.teamId>>

\* C19: ensureCredentials writes a setting only for a prompt that returned a
\* non-empty value, and writes that value: a cancelled or empty prompt writes
\* nothing; the values accepted by earlier prompts of the cycle are persisted
\* and stay so when a later prompt ends the cycle; a cycle prompts only for
\* the fields that were missing from the settings when it started.
C19_WritesOnlyAccepted ==
  /\ [][\A i \in 1..Len(cycles) :
          (cycles[i].pc \in PromptPcs /\ Len(cycles') < Len(cycles))
            => /\ lastEvent'.kind = "declined"
               /\ settings' = settings
               /\ TokenPersisted(cycles[i], settings')
               /\ EmailPersisted(cycles[i], settings')]_vars
  /\ [][(CredentialSettings(settings') # CredentialSettings(settings) /\ edits' = edits)
          => \E i \in 1..Len(cycles) :
               LET f == cycles[i]
                   value == CASE FieldOf(f.pc) = "token" -> f.token
                              [] FieldOf(f.pc) = "email" -> f.email
                              [] FieldOf(f.pc) = "teamId" -> f.teamId
               IN  \/ /\ f.pc \in {"updateToken", "updateEmail", "updateTeamId"}
                      /\ value # "" /\ value = Trim(value)
                      /\ settings' = SetSetting(settings, FieldOf(f.pc), value)
                   \/ /\ f.pc = "authUpdate"
                      /\ f.input # ""
                      /\ settings' = SetSetting(settings, "token", f.input)]_vars
  /\ [](\A i \in 1..Len(cycles) :
          /\ TokenPersisted(cycles[i], settings) /\ EmailPersisted(cycles[i], settings)
          /\ cycles[i].pc \in {"promptToken", "updateToken"} => cycles[i].config.token = ""
          /\ cycles[i].pc \in {"promptEmail", "updateEmail"} => cycles[i].config.email = ""
          /\ cycles[i].pc \in {"promptTeamId", "updateTeamId"} => cycles[i].config.teamId = "")

\* the token was accepted in the first cycle, whose email prompt was declined;
\* the second cycle starts with that token and asks for the email
C19_Witness ==
  /\ started = 2
  /\ lastCycle = NoCycle
  /\ settings.token = Str("tok")
  /\ settings.email = Undefined
  /\ \E i \in 1..Len(cycles) :
       cycles[i].pc = "promptEmail" /\ cycles[i].config.token = "tok"

\* ---------------------------------------------------------------- C20
\* C20: after any sequence of activation, configuration changes and
\* deactivation at most one interval timer is live, and it is the one whose
\* handle is held; a scheduleRefresh that arms a timer has cleared the
\* previous one; a timer is live exactly when the extension is active and
\* the interval read by the latest scheduleRefresh is positive; no
\* timer-driven cycle starts before activation or after deactivation.
C20_SingleTimer ==
  /\ [](/\ Cardinality(timers) <= 1
        /\ \A h \in timers : h.id = refreshTimer
        /\ timers # {} <=> (phase = "active" /\ Interval > 0))
  /\ [][refreshTimer' # refreshTimer => timers' \cap timers = {}]_vars
  /\ [][lastEvent'.kind = "tick" => phase = "active" /\ phase' = "active"]_vars
  /\ [][phase = "inactive" => phase' = "inactive" /\ timers' = {} /\ started' = started]_vars

\* the extension was deactivated with a timer armed after a settings edit,
\* while a cycle was still suspended
C20_Witness ==
  /\ phase = "inactive"
  /\ Interval = 30
  /\ edits = 1
  /\ timers = {}
  /\ refreshTimer = 0
  /\ cycles # <<>>

\* ---------------------------------------------------------------- C21
\* the value at the position ranks of a document, the object keys counted in
\* Object.entries order
RECURSIVE ValueAt(_, _)
ValueAt(v, ranks) ==
  IF Len(ranks) = 0 THEN v
  ELSE IF v.t = "arr" THEN ValueAt(v.a[Head(ranks)], Tail(ranks))
  ELSE ValueAt(ObjectEntries(v.o)[Head(ranks)][2], Tail(ranks))

\* the value stored at the key the search matches: the shallowest match, the
\* first in enumeration order among the shallowest
MatchedValue(data, candidates) ==
  LET M == KeyMatches(data, "", <<>>, {ToLowerCase(candidates[i]) : i \in 1..Len(candidates)},
                      TRUE)
      best == CHOOSE m \in M :
                \A n \in M : \/ Len(m.ranks) < Len(n.ranks)
                             \/ Len(m.ranks) = Len(n.ranks) /\ (m = n \/ Before(m.ranks, n.ranks))
  IN  IF M = {} THEN Undefined ELSE ValueAt(data, best.ranks)

\* the number a numeric value stands for
NumberOf(v) == IF v.t = "str" THEN ToNumber(v.s) ELSE v

\* C21: whenever guessUsagePath returns a path, getNumberByPath on the same
\* document and that path returns a defined number, the one stored at the
\* matched key, whatever the object keys on the way (empty keys and keys
\* with a dot included).
C21_MatchResolves ==
  (call \in RESOLVE_CALLS /\ ret.state = "returned" /\ ret.value.usedPath # Undefined) =>
    /\ ret.value.used # Undefined
    /\ ret.value.used = NumberOf(MatchedValue(call.response, USED_CANDIDATES))
====
